---- MODULE Spec2Model ----
(***************************************************************************)
(* State-machine model of the CommandInput React component                 *)
(* (frontend/src/components/CommandInput.tsx).                             *)
(*                                                                         *)
(* JavaScript strings are sequences of one-character strings, so that      *)
(* String.prototype.trim is computed and not assumed.  The three useState  *)
(* hooks are the record fields command / commandHistory / historyIndex.    *)
(* A handler runs against the state of the render that created it and      *)
(* only enqueues state updates; React applies the queue when the handler   *)
(* has returned (updates made inside a React event handler are batched).   *)
(* Each action below is one DOM event or one render caused by the parent,  *)
(* taken up to and including the commit and the effect that follows it.    *)
(***************************************************************************)
EXTENDS Integers, Sequences, FiniteSets, TLC

VARIABLES
    mounted,         \* the component has been mounted (inputRef.current is set)
    disabled,        \* prop `disabled`
    onSendArrowKey,  \* TRUE iff the optional prop `onSendArrowKey` is supplied
    command,         \* useState('')        : the draft
    commandHistory,  \* useState<string[]>  : oldest first
    historyIndex,    \* useState(-1)        : the history cursor
    event,           \* the event (or render) handled by the last step
    calls,           \* callback invocations made by the last step, in order
    focusRequests    \* number of inputRef.current.focus() calls of the last step

vars == <<mounted, disabled, onSendArrowKey, command, commandHistory,
          historyIndex, event, calls, focusRequests>>

----------------------------------------------------------------------------
(* Bounds and input sets *)

\* Longest history the model lets grow (the code's history is unbounded).
MaxHistory == 2

\* Texts the user can put into the textarea: empty, whitespace-only,
\* plain, and texts with leading / trailing whitespace.
InputTexts ==
    { <<>>, <<" ">>, <<"a">>, <<" ", "a">>, <<"a", " ">> }

Keys == {"ArrowUp", "ArrowDown", "Enter", "a"}

----------------------------------------------------------------------------
(* JavaScript values *)

WhiteSpace == {" ", "\n", "\t", "\r"}

RECURSIVE trimStart(_)
trimStart(s) ==
    IF s = <<>> THEN s
    ELSE IF Head(s) \in WhiteSpace THEN trimStart(Tail(s)) ELSE s

RECURSIVE trimEnd(_)
trimEnd(s) ==
    IF s = <<>> THEN s
    ELSE IF s[Len(s)] \in WhiteSpace THEN trimEnd(SubSeq(s, 1, Len(s) - 1)) ELSE s

\* command.trim()
trim(s) == trimEnd(trimStart(s))

\* truthiness of a JavaScript string: only '' is falsy
Truthy(s) == s # <<>>

\* the value of an out-of-range array read
Undefined == <<"undefined">>

\* commandHistory[i], zero-based as in the source
At(h, i) == IF i \in 0 .. (Len(h) - 1) THEN h[i + 1] ELSE Undefined

\* '\r'
CR == <<"\r">>

\* the direction literals 'up' | 'down' | 'left' | 'right'
Directions ==
    { <<"u","p">>, <<"d","o","w","n">>, <<"l","e","f","t">>, <<"r","i","g","h","t">> }

----------------------------------------------------------------------------
(* Hook state and the update queue *)

State == [command |-> command, commandHistory |-> commandHistory,
          historyIndex |-> historyIndex]

\* setCommandHistory(prev => [...prev, c])
AppendHistory(c) == [hook |-> "commandHistory", val |-> c]
\* setHistoryIndex(i)
SetHistoryIndex(i) == [hook |-> "historyIndex", val |-> i]
\* setCommand(c)
SetCommand(c) == [hook |-> "command", val |-> c]

\* applyUpdate, had the history refused a text it already holds
applyUpdate_dedup(s, u) ==
    CASE u.hook = "commandHistory" ->
            IF \E i \in 1 .. Len(s.commandHistory) : s.commandHistory[i] = u.val
            THEN s
            ELSE [s EXCEPT !.commandHistory = Append(@, u.val)]
      [] u.hook = "historyIndex" -> [s EXCEPT !.historyIndex = u.val]
      [] u.hook = "command" -> [s EXCEPT !.command = u.val]

applyUpdate(s, u) ==
    CASE u.hook = "commandHistory" ->
            [s EXCEPT !.commandHistory = Append(@, u.val)]
      [] u.hook = "historyIndex" -> [s EXCEPT !.historyIndex = u.val]
      [] u.hook = "command" -> [s EXCEPT !.command = u.val]

RECURSIVE flush(_, _)
flush(s, q) == IF q = <<>> THEN s ELSE flush(applyUpdate(s, Head(q)), Tail(q))

\* A callback invocation: the function, its argument, how many state updates
\* the handler had enqueued when it made the call, and the hook state that
\* was committed at that moment.
Call(fn, arg, queue, s) ==
    [fn |-> fn, arg |-> arg, queued |-> queue, state |-> s]

Nothing == [updates |-> <<>>, calls |-> <<>>]

----------------------------------------------------------------------------
(* The handlers.  Each returns the state updates it enqueues and the       *)
(* callback invocations it makes, in program order.                        *)

\* sendCommand, had it sent and stored the trimmed text
sendCommand_trimmed(s, dis) ==
    IF dis THEN Nothing
    ELSE IF Truthy(trim(s.command))
    THEN LET q == <<AppendHistory(trim(s.command)), SetHistoryIndex(-1)>>
         IN  [updates |-> q \o <<SetCommand(<<>>)>>,
              calls   |-> <<Call("onSendCommand", trim(s.command), q, s)>>]
    ELSE [updates |-> <<>>,
          calls   |-> <<Call("onSendCommand", CR, <<>>, s)>>]

\* sendCommand, had the blank branch also reset the cursor and the draft
sendCommand_blankResets(s, dis) ==
    IF dis THEN Nothing
    ELSE IF Truthy(trim(s.command))
    THEN LET q == <<AppendHistory(s.command), SetHistoryIndex(-1)>>
         IN  [updates |-> q \o <<SetCommand(<<>>)>>,
              calls   |-> <<Call("onSendCommand", s.command, q, s)>>]
    ELSE LET q == <<SetHistoryIndex(-1)>>
         IN  [updates |-> q \o <<SetCommand(<<>>)>>,
              calls   |-> <<Call("onSendCommand", CR, q, s)>>]

\* sendCommand without the early return on `disabled`
sendCommand_noGuard(s, dis) ==
    IF Truthy(trim(s.command))
    THEN LET q == <<AppendHistory(s.command), SetHistoryIndex(-1)>>
         IN  [updates |-> q \o <<SetCommand(<<>>)>>,
              calls   |-> <<Call("onSendCommand", s.command, q, s)>>]
    ELSE [updates |-> <<>>,
          calls   |-> <<Call("onSendCommand", CR, <<>>, s)>>]

\* sendCommand, had it invoked the callback before touching the state
sendCommand_callFirst(s, dis) ==
    IF dis THEN Nothing
    ELSE IF Truthy(trim(s.command))
    THEN [updates |-> <<AppendHistory(s.command), SetHistoryIndex(-1),
                        SetCommand(<<>>)>>,
          calls   |-> <<Call("onSendCommand", s.command, <<>>, s)>>]
    ELSE [updates |-> <<>>,
          calls   |-> <<Call("onSendCommand", CR, <<>>, s)>>]

sendCommand(s, dis) ==
    IF dis THEN Nothing
    ELSE IF Truthy(trim(s.command))
    THEN LET q == <<AppendHistory(s.command), SetHistoryIndex(-1)>>
         IN  [updates |-> q \o <<SetCommand(<<>>)>>,
              calls   |-> <<Call("onSendCommand", s.command, q, s)>>]
    ELSE [updates |-> <<>>,
          calls   |-> <<Call("onSendCommand", CR, <<>>, s)>>]

handleSubmit(s, dis) == sendCommand(s, dis)

\* arrowUp, had the bound test been newIndex <= length
arrowUp_offByOne(s) ==
    LET h == s.commandHistory
        newIndex == s.historyIndex + 1
    IN  IF Len(h) > 0 /\ newIndex <= Len(h)
        THEN [updates |-> <<SetHistoryIndex(newIndex),
                            SetCommand(At(h, Len(h) - 1 - newIndex))>>,
              calls   |-> <<>>]
        ELSE Nothing

\* arrowUp, had it read the history oldest first
arrowUp_forward(s) ==
    LET h == s.commandHistory
        newIndex == s.historyIndex + 1
    IN  IF Len(h) > 0 /\ newIndex < Len(h)
        THEN [updates |-> <<SetHistoryIndex(newIndex), SetCommand(At(h, newIndex))>>,
              calls   |-> <<>>]
        ELSE Nothing

\* the ArrowUp branch of handleKeyDown
arrowUp(s) ==
    LET h == s.commandHistory
        newIndex == s.historyIndex + 1
    IN  IF Len(h) > 0 /\ newIndex < Len(h)
        THEN [updates |-> <<SetHistoryIndex(newIndex),
                            SetCommand(At(h, Len(h) - 1 - newIndex))>>,
              calls   |-> <<>>]
        ELSE Nothing

\* arrowDown, had it read the entry of the cursor it is leaving
arrowDown_staleIndex(s) ==
    LET h == s.commandHistory
        newIndex == s.historyIndex - 1
    IN  IF s.historyIndex > 0
        THEN [updates |-> <<SetHistoryIndex(newIndex),
                            SetCommand(At(h, Len(h) - 1 - s.historyIndex))>>,
              calls   |-> <<>>]
        ELSE IF s.historyIndex = 0
        THEN [updates |-> <<SetHistoryIndex(-1), SetCommand(<<>>)>>,
              calls   |-> <<>>]
        ELSE Nothing

\* arrowDown, had it left the draft alone when leaving cursor 0
arrowDown_keepsDraft(s) ==
    LET h == s.commandHistory
        newIndex == s.historyIndex - 1
    IN  IF s.historyIndex > 0
        THEN [updates |-> <<SetHistoryIndex(newIndex),
                            SetCommand(At(h, Len(h) - 1 - newIndex))>>,
              calls   |-> <<>>]
        ELSE IF s.historyIndex = 0
        THEN [updates |-> <<SetHistoryIndex(-1)>>, calls |-> <<>>]
        ELSE Nothing

\* arrowDown, had it treated cursor 0 like every cursor >= 0
arrowDown_noZeroCase(s) ==
    LET h == s.commandHistory
        newIndex == s.historyIndex - 1
    IN  IF s.historyIndex >= 0
        THEN [updates |-> <<SetHistoryIndex(newIndex),
                            SetCommand(At(h, Len(h) - 1 - newIndex))>>,
              calls   |-> <<>>]
        ELSE Nothing

\* the ArrowDown branch of handleKeyDown
arrowDown(s) ==
    LET h == s.commandHistory
        newIndex == s.historyIndex - 1
    IN  IF s.historyIndex > 0
        THEN [updates |-> <<SetHistoryIndex(newIndex),
                            SetCommand(At(h, Len(h) - 1 - newIndex))>>,
              calls   |-> <<>>]
        ELSE IF s.historyIndex = 0
        THEN [updates |-> <<SetHistoryIndex(-1), SetCommand(<<>>)>>,
              calls   |-> <<>>]
        ELSE Nothing

\* handleKeyDown, had the arrow keys also been forwarded to onSendArrowKey
handleKeyDown_arrowsForwarded(s, dis, e) ==
    IF (e.ctrlKey \/ e.metaKey) /\ e.key = "Enter" THEN sendCommand(s, dis)
    ELSE IF e.key = "ArrowUp"
    THEN [updates |-> arrowUp(s).updates,
          calls   |-> <<Call("onSendArrowKey", <<"u","p">>, <<>>, s)>>]
    ELSE IF e.key = "ArrowDown"
    THEN [updates |-> arrowDown(s).updates,
          calls   |-> <<Call("onSendArrowKey", <<"d","o","w","n">>, <<>>, s)>>]
    ELSE Nothing

\* handleKeyDown, had it ignored the arrow keys while Ctrl or Meta is held
handleKeyDown_chordSkipsArrows(s, dis, e) ==
    IF e.ctrlKey \/ e.metaKey
    THEN IF e.key = "Enter" THEN sendCommand(s, dis) ELSE Nothing
    ELSE IF e.key = "ArrowUp" THEN arrowUp(s)
    ELSE IF e.key = "ArrowDown" THEN arrowDown(s)
    ELSE Nothing

handleKeyDown(s, dis, e) ==
    IF (e.ctrlKey \/ e.metaKey) /\ e.key = "Enter" THEN sendCommand(s, dis)
    ELSE IF e.key = "ArrowUp" THEN arrowUp(s)
    ELSE IF e.key = "ArrowDown" THEN arrowDown(s)
    ELSE Nothing

\* handleChange, had typing also left the history (cursor back to -1)
handleChange_resetsCursor(s, value) ==
    [updates |-> <<SetCommand(value), SetHistoryIndex(-1)>>, calls |-> <<>>]

\* onChange={(e) => setCommand(e.target.value)}
handleChange(s, value) == [updates |-> <<SetCommand(value)>>, calls |-> <<>>]

\* handleClick, had the up and down buttons also walked the history
handleClick_navigates(s, direction) ==
    [updates |-> IF direction = <<"u","p">> THEN arrowUp(s).updates
                 ELSE IF direction = <<"d","o","w","n">> THEN arrowDown(s).updates
                 ELSE <<>>,
     calls   |-> <<Call("onSendArrowKey", direction, <<>>, s)>>]

\* onClick={() => onSendArrowKey(direction)}
handleClick(s, direction) ==
    [updates |-> <<>>, calls |-> <<Call("onSendArrowKey", direction, <<>>, s)>>]

\* autoFocus, had the effect no dependency list (it would run after every
\* render)
autoFocus_noDeps(isMount, prevDisabled, nextDisabled) ==
    IF ~nextDisabled THEN 1 ELSE 0

\* useEffect(() => { if (!disabled && inputRef.current) focus() }, [disabled]):
\* the number of focus() calls made after a commit.  The effect runs after
\* the mount and after a render in which `disabled` differs from the
\* previous render; inputRef.current is the textarea from the mount on.
autoFocus(isMount, prevDisabled, nextDisabled) ==
    IF (isMount \/ prevDisabled # nextDisabled) /\ ~nextDisabled THEN 1 ELSE 0

\* submitLabel, had it tested the draft without trimming it
submitLabel_untrimmed(s) == IF Truthy(s.command) THEN "Send" ELSE "Enter"

\* {command.trim() ? '送信' : 'Enter'}: the text of the submit button;
\* "Send" stands for the label '送信'
submitLabel(s) == IF Truthy(trim(s.command)) THEN "Send" ELSE "Enter"

----------------------------------------------------------------------------
(* Events *)

Ev(type, key, ctrl, meta, button, trusted) ==
    [type |-> type, key |-> key, ctrlKey |-> ctrl, metaKey |-> meta,
     button |-> button, isTrusted |-> trusted]

NoEvent == Ev("none", "", FALSE, FALSE, <<>>, FALSE)

\* Delivered, had the textarea and the submit button no `disabled` attribute
Delivered_noAttribute(e) == TRUE

\* disabled={disabled} on the textarea and on the submit button: the user
\* cannot type into, focus or press a disabled control, so events that come
\* from the user (isTrusted) reach a handler only while enabled.  Events
\* dispatched by script reach the handlers of the textarea and of the form
\* in either case.
Delivered(e) == e.isTrusted => ~disabled

\* disabled={disabled} on a direction button: a disabled button receives no
\* click at all, and the buttons exist only when onSendArrowKey is supplied.
Clickable == onSendArrowKey /\ ~disabled

\* Commit of what a handler returned: the queue is applied in order after
\* the handler has returned, then the component renders with `disabled`
\* unchanged.
Handle(r, e) ==
    LET s2 == flush(State, r.updates)
    IN  /\ mounted
        /\ Len(s2.commandHistory) <= MaxHistory
        /\ command' = s2.command
        /\ commandHistory' = s2.commandHistory
        /\ historyIndex' = s2.historyIndex
        /\ calls' = r.calls
        /\ event' = e
        /\ focusRequests' = autoFocus(FALSE, disabled, disabled)
        /\ UNCHANGED <<mounted, disabled, onSendArrowKey>>

----------------------------------------------------------------------------
(* The state machine *)

Init ==
    /\ mounted = FALSE
    /\ disabled \in BOOLEAN
    /\ onSendArrowKey \in BOOLEAN
    /\ command = <<>>
    /\ commandHistory = <<>>
    /\ historyIndex = -1
    /\ event = NoEvent
    /\ calls = <<>>
    /\ focusRequests = 0

\* first render: the effect runs once
Mount ==
    /\ ~mounted
    /\ mounted' = TRUE
    /\ event' = Ev("mount", "", FALSE, FALSE, <<>>, FALSE)
    /\ calls' = <<>>
    /\ focusRequests' = autoFocus(TRUE, disabled, disabled)
    /\ UNCHANGED <<disabled, onSendArrowKey, command, commandHistory, historyIndex>>

\* the parent renders the component again with props disabled = d and
\* onSendArrowKey supplied iff k
Render ==
    \E d \in BOOLEAN, k \in BOOLEAN :
        /\ mounted
        /\ disabled' = d
        /\ onSendArrowKey' = k
        /\ event' = Ev("render", "", FALSE, FALSE, <<>>, FALSE)
        /\ calls' = <<>>
        /\ focusRequests' = autoFocus(FALSE, disabled, d)
        /\ UNCHANGED <<mounted, command, commandHistory, historyIndex>>

\* the textarea's change event
Change ==
    \E value \in InputTexts, trusted \in BOOLEAN :
        LET e == Ev("change", "", FALSE, FALSE, <<>>, trusted)
        IN  Delivered(e) /\ Handle(handleChange(State, value), e)

\* the form's submit event
Submit ==
    \E trusted \in BOOLEAN :
        LET e == Ev("submit", "", FALSE, FALSE, <<>>, trusted)
        IN  Delivered(e) /\ Handle(handleSubmit(State, disabled), e)

\* the textarea's keydown event
KeyDown ==
    \E key \in Keys, ctrl \in BOOLEAN, meta \in BOOLEAN, trusted \in BOOLEAN :
        LET e == Ev("keydown", key, ctrl, meta, <<>>, trusted)
        IN  Delivered(e) /\ Handle(handleKeyDown(State, disabled, e), e)

\* a click on one of the four direction buttons
Click ==
    \E direction \in Directions :
        LET e == Ev("click", "", FALSE, FALSE, direction, TRUE)
        IN  Clickable /\ Handle(handleClick(State, direction), e)

Next == Mount \/ Render \/ Change \/ Submit \/ KeyDown \/ Click

Spec == Init /\ [][Next]_vars

----------------------------------------------------------------------------
(* Vocabulary of the properties *)

\* a Submit: the form's submit event, or Enter with Ctrl or Meta held
IsSubmit(e) ==
    \/ e.type = "submit"
    \/ e.type = "keydown" /\ e.key = "Enter" /\ (e.ctrlKey \/ e.metaKey)

\* a press of key k with neither Ctrl nor Meta held
IsPlainKey(e, k) ==
    e.type = "keydown" /\ e.key = k /\ ~e.ctrlKey /\ ~e.metaKey

\* a press of key k with Ctrl or Meta held
IsChordKey(e, k) ==
    e.type = "keydown" /\ e.key = k /\ (e.ctrlKey \/ e.metaKey)

Blank(s) == trim(s) = <<>>

Last(h) == h[Len(h)]

StateUnchanged == UNCHANGED <<command, commandHistory, historyIndex>>

----------------------------------------------------------------------------
(* C1: while enabled, a Submit of a draft T whose trimmed form is not      *)
(* empty appends T itself (untrimmed) as the last element of the history,  *)
(* sets the cursor to -1, invokes onSendCommand exactly once, with T, and  *)
(* leaves the draft empty.                                                 *)
C1_SubmitNonBlank ==
    [][ (IsSubmit(event') /\ ~disabled /\ ~Blank(command)) =>
          /\ commandHistory' = Append(commandHistory, command)
          /\ historyIndex' = -1
          /\ command' = <<>>
          /\ Len(calls') = 1
          /\ calls'[1].fn = "onSendCommand"
          /\ calls'[1].arg = command ]_vars

\* an untrimmed draft was submitted while the cursor was inside a non-empty
\* history
C1_Witness ==
    /\ IsSubmit(event)
    /\ Len(calls) = 1
    /\ calls[1].arg = <<"a", " ">>
    /\ calls[1].state.historyIndex = 0
    /\ Len(commandHistory) = 2
    /\ Last(commandHistory) = <<"a", " ">>
    /\ command = <<>>

(* C2: while enabled, a Submit of an empty or whitespace-only draft        *)
(* invokes onSendCommand exactly once, with "\r", and leaves the history,  *)
(* the cursor and the draft as they were.                                  *)
C2_SubmitBlank ==
    [][ (IsSubmit(event') /\ ~disabled /\ Blank(command)) =>
          /\ Len(calls') = 1
          /\ calls'[1].fn = "onSendCommand"
          /\ calls'[1].arg = CR
          /\ StateUnchanged ]_vars

\* a whitespace-only draft was submitted while the cursor was inside the
\* history, and is still there
C2_Witness ==
    /\ IsSubmit(event)
    /\ Len(calls) = 1
    /\ calls[1].arg = CR
    /\ command = <<" ">>
    /\ historyIndex = 0
    /\ commandHistory # <<>>

(* C3: in every reachable state the cursor is -1 or a valid zero-based     *)
(* index into the history.                                                 *)
C3_CursorInRange ==
    historyIndex = -1 \/ (0 <= historyIndex /\ historyIndex < Len(commandHistory))

\* ArrowUp has walked the cursor to the oldest entry
C3_Witness ==
    /\ event.type = "keydown" /\ event.key = "ArrowUp"
    /\ Len(commandHistory) = 2
    /\ historyIndex = Len(commandHistory) - 1

\* what an ArrowUp press does to the state, as a relation between the state
\* before and after: with n entries h[1..n] (oldest first) and cursor c,
\* move to c+1 and recall h[n-(c+1)] unless the history is empty or the
\* cursor is on the oldest entry, and then change nothing
UpStep ==
    LET n == Len(commandHistory)
        c == historyIndex
    IN  IF n > 0 /\ c < n - 1
        THEN /\ historyIndex' = c + 1
             /\ command' = commandHistory[n - (c + 1)]
             /\ commandHistory' = commandHistory
        ELSE StateUnchanged

\* what an ArrowDown press does: from cursor c > 0 move to c-1 and recall
\* h[n-(c-1)]; from cursor 0 leave the history with an empty draft; at
\* cursor -1 change nothing
DownStep ==
    LET n == Len(commandHistory)
        c == historyIndex
    IN  IF c > 0
        THEN /\ historyIndex' = c - 1
             /\ command' = commandHistory[n - (c - 1)]
             /\ commandHistory' = commandHistory
        ELSE IF c = 0
        THEN /\ historyIndex' = -1
             /\ command' = <<>>
             /\ commandHistory' = commandHistory
        ELSE StateUnchanged

(* C4: with history h[1..n] and the cursor at -1, the k-th consecutive Up  *)
(* press (1 <= k <= n) finds the cursor at k-2, sets it to k-1 and sets    *)
(* the draft to h[n-k+1]; an Up press with the cursor at n-1, or with an   *)
(* empty history, changes nothing.                                         *)
C4_UpWalk == [][ IsPlainKey(event', "ArrowUp") => UpStep ]_vars

\* two Up presses have walked from the newest to the oldest of two
\* different entries
C4_Witness ==
    /\ IsPlainKey(event, "ArrowUp")
    /\ Len(commandHistory) = 2
    /\ commandHistory[1] # commandHistory[2]
    /\ historyIndex = 1
    /\ command = commandHistory[1]

(* C5: a Down press with the cursor c > 0 sets the cursor to c-1 and the   *)
(* draft to the entry of the new cursor; with c = 0 it sets the cursor to  *)
(* -1 and empties the draft; with c = -1 it changes nothing.  Hence c+1    *)
(* Down presses lead from cursor c to cursor -1 with an empty draft.       *)
C5_DownWalk == [][ IsPlainKey(event', "ArrowDown") => DownStep ]_vars

\* a Down press has come back from the older to the newer of two different
\* entries
C5_Witness ==
    /\ IsPlainKey(event, "ArrowDown")
    /\ Len(commandHistory) = 2
    /\ commandHistory[1] # commandHistory[2]
    /\ historyIndex = 0
    /\ command = commandHistory[2]

(* C6: while `disabled` is true no callback is invoked and no focus is     *)
(* requested, whatever event or render the component handles.              *)
C6_DisabledIsSilent ==
    [][ (disabled /\ disabled') => (calls' = <<>> /\ focusRequests' = 0) ]_vars

\* a scripted Ctrl+Enter reached the handler of the disabled textarea with a
\* non-blank draft in it
C6_Witness ==
    /\ disabled
    /\ IsChordKey(event, "Enter")
    /\ ~Blank(command)
    /\ calls = <<>>

\* the onSendCommand invocations of the last step that carry a submitted
\* text (and not "\r")
TextCalls ==
    { i \in 1 .. Len(calls) : calls[i].fn = "onSendCommand" /\ calls[i].arg # CR }

(* C7, as claimed: at the moment onSendCommand(T) is invoked for a         *)
(* non-blank submission, the component state already has T as the last     *)
(* history entry and the cursor at -1, and the draft still equals T.       *)
C7_AppliedAtCall ==
    \A i \in TextCalls :
        LET s == calls[i].state
        IN  /\ s.commandHistory # <<>>
            /\ Last(s.commandHistory) = calls[i].arg
            /\ s.historyIndex = -1
            /\ s.command = calls[i].arg

(* C7, amended: when onSendCommand(T) is invoked, the history append of T  *)
(* and the cursor reset have been requested, in that order, and the draft  *)
(* clear has not; none of them is applied yet: the component state at the  *)
(* call is the one before the submission, with draft T, and the state      *)
(* after the handler is that state with T appended, the cursor at -1 and   *)
(* the draft empty.                                                        *)
C7_QueuedAtCall ==
    \A i \in TextCalls :
        LET s == calls[i].state
            T == calls[i].arg
        IN  /\ calls[i].queued = <<AppendHistory(T), SetHistoryIndex(-1)>>
            /\ s.command = T
            /\ commandHistory = Append(s.commandHistory, T)
            /\ historyIndex = -1
            /\ command = <<>>

\* a text was submitted while the cursor was inside a history that did not
\* end with it
C7_Witness ==
    /\ TextCalls # {}
    /\ \E i \in TextCalls :
          /\ calls[i].state.historyIndex = 0
          /\ calls[i].state.commandHistory # <<>>
          /\ Last(calls[i].state.commandHistory) # calls[i].arg

(* C8: a step requests focus exactly once if it is the mount with          *)
(* `disabled` false or a render that takes `disabled` from true to false,  *)
(* and not at all otherwise (mount while disabled, false to true, renders  *)
(* and events that leave `disabled` as it is).                             *)
C8_FocusOncePerEnable ==
    [][ focusRequests' =
          IF \/ ~mounted /\ mounted' /\ ~disabled'
             \/ mounted /\ disabled /\ ~disabled'
          THEN 1 ELSE 0 ]_vars

\* the flag went from true to false after the component had been used
C8_Witness ==
    /\ event.type = "render"
    /\ focusRequests = 1
    /\ ~disabled
    /\ commandHistory # <<>>

(* C9: a step leaves the history as it is or appends exactly one element;  *)
(* only an enabled Submit of a non-blank draft changes it, and it always   *)
(* appends the draft, whether or not the history already holds that text.  *)
C9_AppendOnly ==
    [][ /\ commandHistory' # commandHistory =>
              /\ IsSubmit(event') /\ ~disabled /\ ~Blank(command)
              /\ commandHistory' = Append(commandHistory, command)
        /\ (IsSubmit(event') /\ ~disabled /\ ~Blank(command)) =>
              Len(commandHistory') = Len(commandHistory) + 1 ]_vars

\* a text recalled with Up was submitted again and is now in the history
\* twice
C9_Witness ==
    /\ IsSubmit(event)
    /\ Len(commandHistory) = 2
    /\ commandHistory[1] = commandHistory[2]
    /\ Len(calls) = 1
    /\ calls[1].state.historyIndex = 0
    /\ calls[1].state.command = commandHistory[1]

(* C10, as claimed: an ArrowUp or ArrowDown press with Ctrl or Meta held   *)
(* leaves the draft and the cursor unchanged.                              *)
C10_ChordArrowIsInert ==
    [][ (IsChordKey(event', "ArrowUp") \/ IsChordKey(event', "ArrowDown")) =>
          UNCHANGED <<command, historyIndex>> ]_vars

(* C10, amended: Ctrl and Meta divert only Enter (to Submit); an ArrowUp   *)
(* or ArrowDown press with Ctrl or Meta held navigates the history exactly *)
(* as the key does without a modifier.                                     *)
C10_ChordArrowNavigates ==
    [][ /\ IsChordKey(event', "ArrowUp") => UpStep
        /\ IsChordKey(event', "ArrowDown") => DownStep ]_vars

\* Ctrl+ArrowUp (or Meta+ArrowUp) has recalled the newest entry over a
\* different draft
C10_Witness ==
    /\ IsChordKey(event, "ArrowUp")
    /\ commandHistory # <<>>
    /\ historyIndex = 0
    /\ command = Last(commandHistory)

\* an ArrowUp or ArrowDown press, with or without modifiers
IsArrowKey(e) ==
    e.type = "keydown" /\ (e.key = "ArrowUp" \/ e.key = "ArrowDown")

(* C11, as claimed: while `disabled` is true no typing, Submit, Up or Down *)
(* event changes the draft, the history or the cursor.                     *)
C11_DisabledFreezesState == [][ disabled => StateUnchanged ]_vars

(* C11, amended: while `disabled` is true the history never changes and a  *)
(* Submit changes nothing; the draft and the cursor change only through a  *)
(* change event or an ArrowUp / ArrowDown keydown event that a script      *)
(* dispatches to the disabled textarea (events of the user do not reach    *)
(* it), so without such events the three fields are the same when the      *)
(* flag returns to false as when it became true.                           *)
C11_DisabledFreezesUserState ==
    [][ disabled =>
          /\ commandHistory' = commandHistory
          /\ IsSubmit(event') => StateUnchanged
          /\ ~StateUnchanged =>
                /\ ~event'.isTrusted
                /\ event'.type = "change" \/ IsArrowKey(event') ]_vars

\* a scripted ArrowUp reached the disabled textarea and recalled the newest
\* entry
C11_Witness ==
    /\ disabled
    /\ IsPlainKey(event, "ArrowUp")
    /\ ~event.isTrusted
    /\ commandHistory # <<>>
    /\ historyIndex = 0
    /\ command = Last(commandHistory)

(* C12: a click on the button of direction d invokes onSendArrowKey        *)
(* exactly once, with the literal d, invokes nothing else, and leaves the  *)
(* draft, the history and the cursor unchanged; a click happens only       *)
(* while enabled.                                                          *)
C12_ClickIsPassThrough ==
    [][ event'.type = "click" =>
          /\ ~disabled
          /\ event'.button \in Directions
          /\ Len(calls') = 1
          /\ calls'[1].fn = "onSendArrowKey"
          /\ calls'[1].arg = event'.button
          /\ StateUnchanged ]_vars

\* the down button was clicked while the cursor was on the older of two
\* entries, and the cursor and the draft stayed there
C12_Witness ==
    /\ event.type = "click"
    /\ event.button = <<"d","o","w","n">>
    /\ Len(calls) = 1
    /\ calls[1].arg = <<"d","o","w","n">>
    /\ Len(commandHistory) = 2
    /\ historyIndex = 1
    /\ command = commandHistory[1]

C14_ReadsInRange ==
    /\ command # Undefined
    /\ \A i \in 1 .. Len(commandHistory) : commandHistory[i] # Undefined
    /\ (IsArrowKey(event) /\ historyIndex >= 0) =>
          /\ Len(commandHistory) - 1 - historyIndex \in 0 .. (Len(commandHistory) - 1)
          /\ At(commandHistory, Len(commandHistory) - 1 - historyIndex) # Undefined

\* an Up press has read the entry at index 0, the lowest index there is
C14_Witness ==
    /\ IsArrowKey(event)
    /\ event.key = "ArrowUp"
    /\ Len(commandHistory) = 2
    /\ Len(commandHistory) - 1 - historyIndex = 0
    /\ command = At(commandHistory, 0)

(* C15: an Up or Down key press invokes neither onSendCommand nor          *)
(* onSendArrowKey and leaves the history unchanged; only the draft and     *)
(* the cursor may change.                                                  *)
C15_ArrowKeysAreLocal ==
    [][ IsArrowKey(event') =>
          /\ calls' = <<>>
          /\ commandHistory' = commandHistory
          /\ UNCHANGED <<disabled, onSendArrowKey, mounted>> ]_vars

\* a Down press has moved the cursor and the draft, and nothing was called
C15_Witness ==
    /\ IsArrowKey(event)
    /\ event.key = "ArrowDown"
    /\ calls = <<>>
    /\ Len(commandHistory) = 2
    /\ historyIndex = 0
    /\ command = Last(commandHistory)

\* the draft is not the history entry the cursor is on
DraftEdited ==
    /\ historyIndex >= 0
    /\ command # At(commandHistory, Len(commandHistory) - 1 - historyIndex)

DownKey == Ev("keydown", "ArrowDown", FALSE, FALSE, <<>>, FALSE)

====
